---- MODULE Spec2Model ----
(***************************************************************************)
(* nanoPerplexityAI: the concurrent retrieval scheduler                    *)
(* (google_parse_webpages / fetch_webpage / trace_function) and the        *)
(* citation normalizer (renumber_citations / generate_citation_links /     *)
(* save_markdown), modelled from src/nanoPerplexityAI.py.                  *)
(*                                                                         *)
(* Spec      the retrieval phase: one behaviour is one call of             *)
(*           google_parse_webpages over a list of candidate URLs.          *)
(* CiteSpec  the run of the script: the module-level configuration, then   *)
(*           main(): get_query, llm_check_search, build_prompt, the answer *)
(*           of the language model, save_markdown.                         *)
(***************************************************************************)
EXTENDS Integers, Sequences, FiniteSets, TLC

-----------------------------------------------------------------------------
(* Program constants                                                       *)
SEARCH_TIME_LIMIT == 3
TOTAL_TIMEOUT == 6
MAX_CONTENT == 500

(* Bounds of the model                                                     *)
MaxUrls == 2
MaxWorkers == 2
MaxTime == 8
Epsilon == 1
MaxLen == 2
MaxDigits == 1
MaxAnswerLen == 3

Urls == {"u1", "u2"}

\* Python's None, as a page text or a url
None == "None"

\* The paragraph text of a page: empty (no <p> element) or not
PageTexts == {"", "p", "q"}

VARIABLES
  \* ---- retrieval phase ----
  urls,          \* the candidate URLs, in the order search() yields them
  max_workers,   \* os.cpu_count() or 1
  now,           \* time.time(), in seconds
  t0,            \* the time google_parse_webpages was entered
  pc,            \* "idle" | "submit" | "collecting" | "returned" | "raised"
  submitted,     \* number of futures submitted so far
  fstate,        \* per future: "unsubmitted" | "queued" | "requesting" | "parsing" | "finished"
  start,         \* per future: `start` of fetch_webpage while it runs, else -1
  attempts,      \* per future: number of requests.get calls issued
  body,          \* per future: paragraph text of the response, while it is parsed
  ret,           \* per future: [exc, url, page_text], what future.result() gives
  caught,        \* per future: the exception the except clause absorbed
  outcome,       \* per future: "none" | "success" | "network-error" | "http-error" | "timeout"
  completed,     \* the futures in the order they finished
  snapLen,       \* how many futures had finished when as_completed was entered
  collected,     \* futures as_completed has yielded
  search_dic,    \* the Evidence Map: sequence of [url, text], insertion order
  \* ---- module start-up and main() ----
  OPENAI_API_KEY,   \* os.getenv('OPENAI_API_KEY'): None or set
  LLM_MODEL,        \* os.getenv('LLM_MODEL'): None or set
  OPENAI_BASE_URL,  \* os.getenv('OPENAI_BASE_URL'), or the default once start-up is over
  effects,       \* what the run has done to the outside: "query", "llm", "search", "file"
  check_response,\* llm_check_search: the answer of the classification call
  mpc,           \* "idle" | "startup" | "aborted" | "query" | "classify" | "check" |
                 \* "build_prompt" | "llm" | "save" | "done" | "crashed"
  search_none,   \* llm_check_search returned None
  context_list,  \* build_prompt: the labelled context entries
  raw,           \* the answer as the language model returned it
  response,      \* the answer after renumber_citations
  citation_map,  \* sequence of [old, new] in dict order
  links_block,   \* generate_citation_links: sequence of [new, url]
  file,          \* the output artifact: <<>> or <<output_content>>
  error          \* the exception save_markdown raised, or "none"

fetchVars == <<urls, max_workers, now, t0, pc, submitted, fstate, start, attempts,
               body, ret, caught, outcome, completed, snapLen, collected>>
envVars == <<OPENAI_API_KEY, LLM_MODEL, OPENAI_BASE_URL>>
mainVars == <<envVars, effects, check_response, mpc, search_none, context_list, raw,
              response, citation_map, links_block, file, error>>
vars == <<fetchVars, search_dic, mainVars>>

-----------------------------------------------------------------------------
(* Python helpers                                                          *)

\* truthiness of a str-or-None value
Truthy(x) == x # None /\ x # ""

Keys(dic) == {dic[k].url : k \in 1..Len(dic)}

\* dic[url] = text on an insertion-ordered dict
DictSet_KeyIsText(dic, url, text) == Append(dic, [url |-> text, text |-> url])
DictSet(dic, url, text) ==
  IF url \in Keys(dic)
    THEN [k \in 1..Len(dic) |->
            IF dic[k].url = url THEN [url |-> url, text |-> text] ELSE dic[k]]
    ELSE Append(dic, [url |-> url, text |-> text])

-----------------------------------------------------------------------------
(* Retrieval phase                                                         *)

Futures == 1..Len(urls)

UrlLists == UNION {[1..n -> Urls] : n \in 0..MaxUrls}

InFlight(i) == fstate[i] \in {"requesting", "parsing"}

Running == Cardinality({i \in Futures : InFlight(i)})

\* trace_function: the check made at every traced event of the fetch
TraceExpired(i) == now - start[i] > TOTAL_TIMEOUT

\* the except clause of fetch_webpage
Catches_TimeoutErrorMissing(exc) == exc = "RequestException"
Catches(exc) == exc \in {"RequestException", "TimeoutError"}

InitMain ==
  /\ OPENAI_API_KEY = "set"
  /\ LLM_MODEL = "set"
  /\ OPENAI_BASE_URL = "set"
  /\ effects = {}
  /\ check_response = <<>>
  /\ mpc = "idle"
  /\ search_none = FALSE
  /\ context_list = <<>>
  /\ raw = <<>>
  /\ response = <<>>
  /\ citation_map = <<>>
  /\ links_block = <<>>
  /\ file = <<>>
  /\ error = "none"

Init ==
  /\ urls \in UrlLists
  /\ max_workers \in 1..MaxWorkers
  /\ now = 0
  /\ t0 = 0
  /\ pc = "submit"
  /\ submitted = 0
  /\ fstate = [i \in Futures |-> "unsubmitted"]
  /\ start = [i \in Futures |-> -1]
  /\ attempts = [i \in Futures |-> 0]
  /\ body = [i \in Futures |-> None]
  /\ ret = [i \in Futures |-> [exc |-> "none", url |-> None, page_text |-> None]]
  /\ caught = [i \in Futures |-> "none"]
  /\ outcome = [i \in Futures |-> "none"]
  /\ completed = <<>>
  /\ snapLen = -1
  /\ collected = {}
  /\ search_dic = <<>>
  /\ InitMain

\* executor.submit(fetch_webpage, url, search_time_limit) for the next url
Submit ==
  /\ pc = "submit"
  /\ submitted < Len(urls)
  /\ submitted' = submitted + 1
  /\ fstate' = [fstate EXCEPT ![submitted + 1] = "queued"]
  /\ UNCHANGED <<urls, max_workers, now, t0, pc, start, attempts, body, ret, caught,
                 outcome, completed, snapLen, collected, search_dic, mainVars>>

\* a free worker takes the oldest queued call: start = time.time(),
\* sys.settrace(...), requests.get(url, timeout=timeout) is issued
StartFetch(i) ==
  /\ fstate[i] = "queued"
  /\ \A j \in 1..(i - 1) : fstate[j] # "queued"
  /\ Running < max_workers
  /\ fstate' = [fstate EXCEPT ![i] = "requesting"]
  /\ start' = [start EXCEPT ![i] = now]
  /\ attempts' = [attempts EXCEPT ![i] = @ + 1]
  /\ UNCHANGED <<urls, max_workers, now, t0, pc, submitted, body, ret, caught,
                 outcome, completed, snapLen, collected, search_dic, mainVars>>

\* the fetch leaves fetch_webpage: by `return url, page_text` (exc = "none"),
\* or by an exception, which the except clause absorbs into (url, None) or
\* which propagates into the future
Finish_WorkerInserts(i, exc, text, oc) ==
  /\ fstate' = [fstate EXCEPT ![i] = "finished"]
  /\ ret' = [ret EXCEPT ![i] =
       IF exc = "none" THEN [exc |-> "none", url |-> urls[i], page_text |-> text]
       ELSE IF Catches(exc) THEN [exc |-> "none", url |-> urls[i], page_text |-> None]
       ELSE [exc |-> exc, url |-> None, page_text |-> None]]
  /\ caught' = [caught EXCEPT ![i] = IF exc # "none" /\ Catches(exc) THEN exc ELSE @]
  /\ outcome' = [outcome EXCEPT ![i] = oc]
  /\ start' = [start EXCEPT ![i] = -1]
  /\ body' = [body EXCEPT ![i] = None]
  /\ completed' = Append(completed, i)
  /\ search_dic' = IF exc = "none" /\ Truthy(text)
                     THEN DictSet(search_dic, urls[i], text)
                     ELSE search_dic
  /\ UNCHANGED <<urls, max_workers, now, t0, pc, submitted, attempts,
                 snapLen, collected, mainVars>>
Finish(i, exc, text, oc) ==
  /\ fstate' = [fstate EXCEPT ![i] = "finished"]
  /\ ret' = [ret EXCEPT ![i] =
       IF exc = "none" THEN [exc |-> "none", url |-> urls[i], page_text |-> text]
       ELSE IF Catches(exc) THEN [exc |-> "none", url |-> urls[i], page_text |-> None]
       ELSE [exc |-> exc, url |-> None, page_text |-> None]]
  /\ caught' = [caught EXCEPT ![i] = IF exc # "none" /\ Catches(exc) THEN exc ELSE @]
  /\ outcome' = [outcome EXCEPT ![i] = oc]
  /\ start' = [start EXCEPT ![i] = -1]
  /\ body' = [body EXCEPT ![i] = None]
  /\ completed' = Append(completed, i)
  /\ UNCHANGED <<urls, max_workers, now, t0, pc, submitted, attempts,
                 snapLen, collected, search_dic, mainVars>>

\* requests.get returns a response with a 2xx status; the traced code it
\* runs through raises once the trace function finds the deadline passed
ResponseOk(i, text) ==
  /\ fstate[i] = "requesting"
  /\ ~TraceExpired(i)
  /\ fstate' = [fstate EXCEPT ![i] = "parsing"]
  /\ body' = [body EXCEPT ![i] = text]
  /\ UNCHANGED <<urls, max_workers, now, t0, pc, submitted, start, attempts, ret, caught,
                 outcome, completed, snapLen, collected, search_dic, mainVars>>

\* response.raise_for_status() raises HTTPError, a RequestException
HttpError(i) ==
  /\ fstate[i] = "requesting"
  /\ Finish(i, "RequestException", None, "http-error")

\* requests.get raises ConnectionError and the like, RequestExceptions
NetworkError(i) ==
  /\ fstate[i] = "requesting"
  /\ Finish(i, "RequestException", None, "network-error")

\* requests.get raises requests.exceptions.Timeout: the server was silent for
\* `timeout` seconds (the timeout is per socket operation, so a request as a
\* whole may last longer than `timeout`)
RequestTimeout(i) ==
  /\ fstate[i] = "requesting"
  /\ now - start[i] >= SEARCH_TIME_LIMIT
  /\ Finish(i, "RequestException", None, "timeout")

\* trace_function raises TimeoutError at a traced event of the request or
\* of the parsing
TraceTimeout(i) ==
  /\ InFlight(i)
  /\ TraceExpired(i)
  /\ Finish(i, "TimeoutError", None, "timeout")

\* BeautifulSoup, find_all('p'), ' '.join(...), return url, page_text
ParseAndReturn(i) ==
  /\ fstate[i] = "parsing"
  /\ ~TraceExpired(i)
  /\ Finish(i, "none", body[i], "success")

\* a second passes while a fetch is on the network. Submitting the urls and
\* handing a queued call to an idle worker take no time on this scale, and a
\* fetch whose trace function has found the deadline passed raises at its
\* next traced event, before another second is over
Tick ==
  /\ now < MaxTime
  /\ pc # "submit"
  /\ \E i \in Futures : InFlight(i)
  /\ \A i \in Futures : InFlight(i) => ~TraceExpired(i)
  /\ (\E i \in Futures : fstate[i] = "queued") => Running >= max_workers
  /\ now' = now + 1
  /\ UNCHANGED <<urls, max_workers, t0, pc, submitted, fstate, start, attempts, body,
                 ret, caught, outcome, completed, snapLen, collected,
                 search_dic, mainVars>>

\* as_completed(future_to_url) is entered once every url is submitted: the
\* futures already finished are set aside, the others are awaited
AsCompleted ==
  /\ pc = "submit"
  /\ submitted = Len(urls)
  /\ pc' = "collecting"
  /\ snapLen' = Len(completed)
  /\ UNCHANGED <<urls, max_workers, now, t0, submitted, fstate, start, attempts, body,
                 ret, caught, outcome, completed, collected, search_dic,
                 mainVars>>

\* the future as_completed yields next: any of those finished at its entry,
\* then the others in the order they finished
YieldsNext(i) ==
  LET snap == {completed[k] : k \in 1..snapLen} IN
  IF snap \ collected # {}
    THEN i \in snap \ collected
    ELSE \E k \in (snapLen + 1)..Len(completed) :
           /\ completed[k] = i
           /\ i \notin collected
           /\ \A m \in (snapLen + 1)..(k - 1) : completed[m] \in collected

\* one round of the dict comprehension: future.result() raises the fetch's
\* exception, else the entry is kept if url and page_text are both truthy
Collect(i) ==
  /\ pc = "collecting"
  /\ YieldsNext(i)
  /\ collected' = collected \cup {i}
  /\ IF ret[i].exc # "none"
       THEN /\ pc' = "raised"
            /\ UNCHANGED search_dic
       ELSE /\ pc' = pc
            /\ search_dic' = IF Truthy(ret[i].url) /\ Truthy(ret[i].page_text)
                               THEN DictSet(search_dic, ret[i].url, ret[i].page_text)
                               ELSE search_dic
  /\ UNCHANGED <<urls, max_workers, now, t0, submitted, fstate, start, attempts, body,
                 ret, caught, outcome, completed, snapLen, mainVars>>

\* as_completed is exhausted and the executor's shutdown(wait=True) at the
\* end of the with block has joined every worker
SchedulerMayReturnAtDeadline ==
  \/ now - t0 >= TOTAL_TIMEOUT
  \/ /\ collected = Futures
     /\ \A i \in Futures : fstate[i] = "finished"
SchedulerMayReturn ==
  /\ collected = Futures
  /\ \A i \in Futures : fstate[i] = "finished"

Return ==
  /\ pc = "collecting"
  /\ SchedulerMayReturn
  /\ pc' = "returned"
  /\ UNCHANGED <<urls, max_workers, now, t0, submitted, fstate, start, attempts, body,
                 ret, caught, outcome, completed, snapLen, collected,
                 search_dic, mainVars>>

Next ==
  \/ Submit
  \/ AsCompleted
  \/ \E i \in Futures : StartFetch(i)
  \/ \E i \in Futures : \E text \in PageTexts : ResponseOk(i, text)
  \/ \E i \in Futures : HttpError(i)
  \/ \E i \in Futures : NetworkError(i)
  \/ \E i \in Futures : RequestTimeout(i)
  \/ \E i \in Futures : TraceTimeout(i)
  \/ \E i \in Futures : ParseAndReturn(i)
  \/ Tick
  \/ \E i \in Futures : Collect(i)
  \/ Return

Spec == Init /\ [][Next]_vars

-----------------------------------------------------------------------------
(* Properties of the retrieval phase                                       *)

Succeeded == {i \in Futures : outcome[i] = "success"}
Failed == {i \in Futures : outcome[i] \in {"network-error", "http-error", "timeout"}}

\* C1: the Evidence Map google_parse_webpages returns has as its keys exactly
\* the urls whose fetch ended in Success, a Success with empty text included
C1_KeysAreTheSuccesses ==
  pc = "returned" => Keys(search_dic) = {urls[i] : i \in Succeeded}

\* C2: google_parse_webpages never raises: every network-error, http-error
\* and timeout (the trace function's TimeoutError included) is absorbed in
\* the fetch, no future holds an exception and the scheduler does not raise
C2_SchedulerNeverRaises ==
  /\ pc # "raised"
  /\ \A i \in Futures : ret[i].exc = "none"
  /\ \A i \in Failed : ret[i] = [exc |-> "none", url |-> urls[i], page_text |-> None]

C2_Witness ==
  /\ pc = "returned"
  /\ \E i \in Futures : outcome[i] = "timeout" /\ caught[i] = "TimeoutError"
  /\ \E i \in Futures : outcome[i] \in {"network-error", "http-error"}

\* C3: when every fetch times out, google_parse_webpages returns no later
\* than TOTAL_TIMEOUT plus one epsilon after it was entered
C3_DeadlineBoundsScheduler ==
  (pc = "returned" /\ \A i \in Futures : outcome[i] = "timeout")
    => now - t0 <= TOTAL_TIMEOUT + Epsilon

\* C4: no fetch starts its network I/O after the global deadline
\* t0 + TOTAL_TIMEOUT (start is the time the request was issued)
C4_NoFetchStartsAfterDeadline ==
  \A i \in Futures : InFlight(i) => start[i] <= t0 + TOTAL_TIMEOUT

\* C5: no fetch ends in Success later than the global deadline
\* t0 + TOTAL_TIMEOUT
C5_NoSuccessAfterDeadline ==
  [][\A i \in Futures :
       (outcome[i] # "success" /\ outcome'[i] = "success")
         => now <= t0 + TOTAL_TIMEOUT]_vars

\* C6: google_parse_webpages returns only when every dispatched fetch has
\* produced its outcome, each exactly once (one request per url occurrence),
\* and with no url it returns the empty map
C6_ReturnsAfterEveryOutcome ==
  pc = "returned" =>
    /\ \A i \in Futures :
         /\ fstate[i] = "finished"
         /\ outcome[i] # "none"
         /\ attempts[i] = 1
         /\ Cardinality({k \in 1..Len(completed) : completed[k] = i}) = 1
    /\ (urls = <<>> => search_dic = <<>>)

C6_Witness ==
  /\ pc = "returned"
  /\ Len(urls) >= 2
  /\ now - t0 > TOTAL_TIMEOUT
  /\ \E i \in Futures : outcome[i] = "timeout"
  /\ \E i \in Futures : outcome[i] = "success"

-----------------------------------------------------------------------------
(* The answer text and the citation normalizer                             *)

\* The answer text is a sequence of tokens: a citation marker, i.e. a match
\* of \[\(?(\d+)\)?\] with its digit string and its optional parentheses,
\* or a stretch of other text
DigitAlphabet == {0, 1, 2}

DigitStrings == UNION {[1..n -> DigitAlphabet] : n \in 1..MaxDigits}

CiteTok(lp, rp, digits) == [kind |-> "cite", lp |-> lp, rp |-> rp, digits |-> digits]

TextTok == [kind |-> "text", lp |-> FALSE, rp |-> FALSE, digits |-> <<>>]

Tokens ==
  {TextTok} \cup {CiteTok(lp, rp, d) : lp \in BOOLEAN, rp \in BOOLEAN, d \in DigitStrings}

Texts == UNION {[1..n -> Tokens] : n \in 0..MaxLen}

\* main() knows a page text by its length: the page of u1 is shorter than
\* MAX_CONTENT, every other page is longer
PageLength(url) == IF url = "u1" THEN 1 ELSE MAX_CONTENT + 1

\* the Evidence Maps google_parse_webpages can hand to main: distinct urls,
\* each with the non-empty text the scheduler kept
EvidenceMaps ==
  {m \in UNION {[1..n -> {[url |-> u, text |-> PageLength(u)] : u \in Urls}] :
                  n \in 0..Cardinality(Urls)} :
     \A a, b \in 1..Len(m) : a # b => m[a].url # m[b].url}

\* content[:n], on lengths
Slice(content, n) == IF content > n THEN n ELSE content

\* int(s) of a digit string
RECURSIVE PyInt(_)
PyInt(d) ==
  IF d = <<>> THEN 0 ELSE 10 * PyInt(SubSeq(d, 1, Len(d) - 1)) + d[Len(d)]

\* the digits of f'{n}'
RECURSIVE PyStr(_)
PyStr(n) ==
  IF n < 10 THEN <<n>> ELSE Append(PyStr(n \div 10), n % 10)

\* sorted(S)
RECURSIVE Sorted(_)
Sorted(S) ==
  IF S = {} THEN <<>>
  ELSE LET m == CHOOSE x \in S : \A y \in S : x <= y
       IN <<m>> \o Sorted(S \ {m})

\* re.findall(r'\[\(?(\d+)\)?\]', response): the digit strings, in text order
RECURSIVE FindAll(_)
FindAll(text) ==
  IF text = <<>> THEN <<>>
  ELSE IF Head(text).kind = "cite"
         THEN <<Head(text).digits>> \o FindAll(Tail(text))
         ELSE FindAll(Tail(text))

\* the distinct values in order of first appearance
RECURSIVE FirstAppearances(_, _)
FirstAppearances(ds, seen) ==
  IF ds = <<>> THEN <<>>
  ELSE IF PyInt(Head(ds)) \in seen
         THEN FirstAppearances(Tail(ds), seen)
         ELSE <<PyInt(Head(ds))>> \o FirstAppearances(Tail(ds), seen \cup {PyInt(Head(ds))})

Citations_Unsorted(text) == FirstAppearances(FindAll(text), {})
\* citations = sorted(set(map(int, re.findall(...))))
Citations(text) ==
  LET found == FindAll(text)
  IN Sorted({PyInt(found[k]) : k \in 1..Len(found)})

\* citation_map = {old: new for new, old in enumerate(citations, 1)}
CitationMap(citations) ==
  [k \in 1..Len(citations) |-> [old |-> citations[k], new |-> k]]

\* the pattern rf'\[\(?{old}\)?\]' matches the token
Matches(tok, old) == tok.kind = "cite" /\ tok.digits = PyStr(old)

\* re.sub(rf'\[\(?{old}\)?\]', f'[{new}]', response)
Sub(text, old, new) ==
  [k \in 1..Len(text) |->
     IF Matches(text[k], old) THEN CiteTok(FALSE, FALSE, PyStr(new)) ELSE text[k]]

\* for old, new in citation_map.items(): response = re.sub(...)
RECURSIVE SubLoop(_, _, _)
SubLoop(text, cmap, k) ==
  IF k > Len(cmap) THEN text
  ELSE SubLoop(Sub(text, cmap[k].old, cmap[k].new), cmap, k + 1)

renumber_citations(text) ==
  LET cmap == CitationMap(Citations(text))
  IN [response |-> SubLoop(text, cmap, 1), citation_map |-> cmap]

\* lst[idx] raises IndexError unless -len(lst) <= idx < len(lst)
IndexOk(lst, idx) == -Len(lst) <= idx /\ idx < Len(lst)

\* lst[idx], as a position of the sequence: a negative idx counts from the end
PyIndex(lst, idx) == IF idx < 0 THEN lst[Len(lst) + idx + 1] ELSE lst[idx + 1]

\* the exception generate_citation_links raises, "none" if it returns:
\* None has no keys(); list(search_dic.keys())[old - 1] may be out of range
LinksError(cmap, dic, isNone) ==
  IF cmap = <<>> THEN "none"
  ELSE IF isNone THEN "AttributeError"
  ELSE IF \E k \in 1..Len(cmap) : ~IndexOk(dic, cmap[k].old - 1) THEN "IndexError"
  ELSE "none"

\* cited_links: one "{new}. {url}" per item of citation_map, in dict order
generate_citation_links(cmap, dic) ==
  [k \in 1..Len(cmap) |->
     [new |-> cmap[k].new, url |-> PyIndex(dic, cmap[k].old - 1).url]]

InitFetchIdle ==
  /\ urls = <<>>
  /\ max_workers = 1
  /\ now = 0
  /\ t0 = 0
  /\ pc = "idle"
  /\ submitted = 0
  /\ fstate = <<>>
  /\ start = <<>>
  /\ attempts = <<>>
  /\ body = <<>>
  /\ ret = <<>>
  /\ caught = <<>>
  /\ outcome = <<>>
  /\ completed = <<>>
  /\ snapLen = -1
  /\ collected = {}

\* the process starts: the environment holds each setting or not
CiteInit ==
  /\ InitFetchIdle
  /\ OPENAI_API_KEY \in {None, "set"}
  /\ LLM_MODEL \in {None, "set"}
  /\ OPENAI_BASE_URL \in {None, "set"}
  /\ effects = {}
  /\ check_response = <<>>
  /\ mpc = "startup"
  /\ search_none = FALSE
  /\ search_dic = <<>>
  /\ context_list = <<>>
  /\ raw = <<>>
  /\ response = <<>>
  /\ citation_map = <<>>
  /\ links_block = <<>>
  /\ file = <<>>
  /\ error = "none"

\* the module-level checks: the exception they raise, or "none"
ConfigFault_KeyOnly(key, model) == IF key = None THEN "ValueError" ELSE "none"
ConfigFault(key, model) ==
  IF key = None THEN "ValueError"
  ELSE IF model = None THEN "ValueError"
  ELSE "none"

\* the module-level code: the two raises, the default of OPENAI_BASE_URL,
\* the construction of the client
Startup ==
  /\ mpc = "startup"
  /\ IF ConfigFault(OPENAI_API_KEY, LLM_MODEL) # "none"
       THEN /\ mpc' = "aborted"
            /\ error' = ConfigFault(OPENAI_API_KEY, LLM_MODEL)
            /\ UNCHANGED OPENAI_BASE_URL
       ELSE /\ mpc' = "query"
            /\ error' = error
            /\ OPENAI_BASE_URL' = IF OPENAI_BASE_URL = None THEN "set" ELSE OPENAI_BASE_URL
  /\ UNCHANGED <<fetchVars, search_dic, OPENAI_API_KEY, LLM_MODEL, effects,
                 check_response, search_none, context_list, raw, response,
                 citation_map, links_block, file>>

\* main: query = get_query()
GetQuery ==
  /\ mpc = "query"
  /\ effects' = effects \cup {"query"}
  /\ mpc' = "classify"
  /\ UNCHANGED <<fetchVars, search_dic, envVars, check_response, search_none,
                 context_list, raw, response, citation_map, links_block, file, error>>

\* the answer of the classification call, as a string of characters
AnswerChars == {"n", "N", "o", "O", " ", "x"}

Answers == UNION {[1..n -> AnswerChars] : n \in 0..MaxAnswerLen}

\* str.lower()
Lower(str) ==
  [k \in 1..Len(str) |->
     IF str[k] = "N" THEN "n" ELSE IF str[k] = "O" THEN "o" ELSE str[k]]

\* str.strip()
RECURSIVE Strip(_)
Strip(str) ==
  IF str = <<>> THEN <<>>
  ELSE IF Head(str) = " " THEN Strip(Tail(str))
  ELSE IF str[Len(str)] = " " THEN Strip(SubSeq(str, 1, Len(str) - 1))
  ELSE str

\* response.lower().strip() != "no"
RequiresSearch(str) == Strip(Lower(str)) # <<"n", "o">>

\* llm_check_search: response = llm_openai(prompt)
LlmClassify ==
  /\ mpc = "classify"
  /\ check_response' \in Answers
  /\ effects' = effects \cup {"llm"}
  /\ mpc' = "check"
  /\ UNCHANGED <<fetchVars, search_dic, envVars, search_none, context_list, raw,
                 response, citation_map, links_block, file, error>>

\* llm_check_search: google_parse_webpages(response) and its Evidence Map,
\* or None when the answer is "no"
LlmCheckSearch ==
  /\ mpc = "check"
  /\ IF RequiresSearch(check_response)
       THEN /\ search_dic' \in EvidenceMaps
            /\ search_none' = FALSE
            /\ effects' = effects \cup {"search"}
       ELSE /\ search_dic' = <<>>
            /\ search_none' = TRUE
            /\ effects' = effects
  /\ check_response' = <<>>
  /\ mpc' = "build_prompt"
  /\ UNCHANGED <<fetchVars, envVars, context_list, raw, response, citation_map,
                 links_block, file, error>>

\* build_prompt: the context entries [i + 1](url): content[:max_content], in
\* the order of search_dic.items(), when search_dic is truthy
BuildPrompt_TruncatesInPlace ==
  /\ mpc = "build_prompt"
  /\ context_list' = IF ~search_none /\ search_dic # <<>>
                       THEN [k \in 1..Len(search_dic) |->
                               [label |-> k, url |-> search_dic[k].url,
                                content |-> Slice(search_dic[k].text, MAX_CONTENT)]]
                       ELSE <<>>
  /\ search_dic' = [k \in 1..Len(search_dic) |->
                      [url |-> search_dic[k].url,
                       text |-> Slice(search_dic[k].text, MAX_CONTENT)]]
  /\ mpc' = "llm"
  /\ UNCHANGED <<fetchVars, envVars, effects, check_response, search_none,
                 raw, response, citation_map, links_block, file, error>>
BuildPrompt ==
  /\ mpc = "build_prompt"
  /\ context_list' = IF ~search_none /\ search_dic # <<>>
                       THEN [k \in 1..Len(search_dic) |->
                               [label |-> k, url |-> search_dic[k].url,
                                content |-> Slice(search_dic[k].text, MAX_CONTENT)]]
                       ELSE <<>>
  /\ mpc' = "llm"
  /\ UNCHANGED <<fetchVars, search_dic, envVars, effects, check_response, search_none,
                 raw, response, citation_map, links_block, file, error>>

\* llm_openai(prompt): the language model returns some answer text
LlmOpenai ==
  /\ mpc = "llm"
  /\ \E text \in Texts :
       /\ raw' = text
       /\ response' = text
  /\ effects' = effects \cup {"llm"}
  /\ mpc' = "save"
  /\ UNCHANGED <<fetchVars, search_dic, envVars, check_response, search_none,
                 context_list, citation_map, links_block, file, error>>

\* output_content, written to the file
OutputContent_AlwaysSources(cmap, links, answer) ==
  [sources |-> TRUE, links |-> links, answer |-> answer]
OutputContent(cmap, links, answer) ==
  [sources |-> cmap # <<>>, links |-> links, answer |-> answer]

\* save_markdown(query, response, search_dic)
SaveMarkdown ==
  /\ mpc = "save"
  /\ LET r == renumber_citations(response)
         err == LinksError(r.citation_map, search_dic, search_none)
         links == IF r.citation_map # <<>> /\ err = "none"
                    THEN generate_citation_links(r.citation_map, search_dic)
                    ELSE <<>>
     IN /\ response' = r.response
        /\ citation_map' = r.citation_map
        /\ links_block' = links
        /\ error' = err
        /\ IF err # "none"
             THEN /\ mpc' = "crashed"
                  /\ file' = <<>>
                  /\ effects' = effects
             ELSE /\ mpc' = "done"
                  /\ file' = <<OutputContent(r.citation_map, links, r.response)>>
                  /\ effects' = effects \cup {"file"}
  /\ UNCHANGED <<fetchVars, search_dic, envVars, check_response, search_none,
                 context_list, raw>>

CiteNext ==
  \/ Startup
  \/ GetQuery
  \/ LlmClassify
  \/ LlmCheckSearch
  \/ BuildPrompt
  \/ LlmOpenai
  \/ SaveMarkdown

CiteSpec == CiteInit /\ [][CiteNext]_vars

-----------------------------------------------------------------------------
(* Properties of the citation normalizer                                   *)

Saved == mpc \in {"done", "crashed"}

\* the values of the markers of the answer as the model returned it
MarkerValues == {PyInt(raw[k].digits) : k \in {j \in 1..Len(raw) : raw[j].kind = "cite"}}

Olds == {citation_map[k].old : k \in 1..Len(citation_map)}

\* the new value the mapping gives an old value
NewOf(v) == (CHOOSE k \in 1..Len(citation_map) : citation_map[k].old = v)

\* C7: the Citation Mapping is a bijection from the distinct marker values
\* of the text onto 1..K that is strictly order-preserving
C7_MappingIsMonotoneBijection ==
  Saved =>
    LET K == Cardinality(MarkerValues) IN
    /\ Len(citation_map) = K
    /\ Olds = MarkerValues
    /\ {citation_map[k].new : k \in 1..Len(citation_map)} = 1..K
    /\ \A a, b \in 1..Len(citation_map) :
         citation_map[a].old < citation_map[b].old
           => citation_map[a].new < citation_map[b].new

C7_Witness ==
  /\ Saved
  /\ Len(citation_map) = 2
  /\ Len(raw) = 2
  /\ PyInt(raw[1].digits) > PyInt(raw[2].digits)
  /\ \E k \in 1..Len(citation_map) : citation_map[k].old # citation_map[k].new
  /\ response # raw

\* every marker of value v replaced at once by the marker of mapping[v]
SimultaneousRewrite ==
  [k \in 1..Len(raw) |->
     IF raw[k].kind = "cite" /\ PyInt(raw[k].digits) \in Olds
       THEN CiteTok(FALSE, FALSE, PyStr(NewOf(PyInt(raw[k].digits))))
       ELSE raw[k]]

\* C8: the text renumber_citations returns is the text with every marker of
\* old value v replaced, simultaneously, by the marker of mapping[v]
C8_RewriteIsSimultaneous ==
  Saved => response = SimultaneousRewrite

\* C9: generate_citation_links renders one line per (old, new) pair, in
\* ascending order of new, and the url of line new is the key at 1-indexed
\* position old of the Evidence Map
C9_LinksResolveOld ==
  (Saved /\ ~search_none /\ citation_map # <<>>) =>
    /\ mpc = "done"
    /\ Len(links_block) = Len(citation_map)
    /\ \A k \in 1..Len(links_block) :
         /\ links_block[k].new = k
         /\ citation_map[k].new = k
         /\ citation_map[k].old \in 1..Len(search_dic)
         /\ links_block[k].url = search_dic[citation_map[k].old].url

\* the old values with no Evidence Map entry
Unresolvable == {v \in Olds : v \notin 1..Len(search_dic)}

\* C10: when a marker has no Evidence Map entry, save_markdown still
\* completes and does not render for it the url of some other entry
C10_FaultIsSurfaced ==
  (Saved /\ ~search_none /\ Unresolvable # {}) =>
    /\ mpc = "done"
    /\ file # <<>>
    /\ \A k \in 1..Len(links_block) :
         citation_map[k].old \in Unresolvable
           => links_block[k].url \notin Keys(search_dic)

(***************************************************************************)
(* The run as a whole (CiteSpec)                                           *)
(***************************************************************************)

\* llm_check_search returned an Evidence Map and it is empty
EmptyEvidence == ~search_none /\ search_dic = <<>> /\ "search" \in effects

\* the output artifact was written, without a Sources section
WrittenWithoutSources ==
  /\ mpc = "done"
  /\ file # <<>>
  /\ ~file[1].sources
  /\ "file" \in effects

\* C11: when every fetch failed, so that the Evidence Map is empty, the run
\* still writes the output artifact, in no-citation mode, whatever answer
\* text the language model returned, with or without citation markers.
C11_EmptyEvidenceStillAnswers ==
  (Saved /\ EmptyEvidence) => WrittenWithoutSources

(***************************************************************************)
(* The Evidence Map under construction (Spec)                              *)
(***************************************************************************)

\* C12: whatever the fetches do, the Evidence Map has at most as many
\* entries as the list of candidate urls, no key twice, and each of its keys
\* is a url of that list.
C12_MapIsBoundedByInput ==
  /\ Len(search_dic) <= Len(urls)
  /\ Cardinality(Keys(search_dic)) = Len(search_dic)
  /\ Keys(search_dic) \subseteq {urls[i] : i \in Futures}

\* two distinct candidate urls, both kept in the returned map
C12_Witness ==
  /\ pc = "returned"
  /\ Len(urls) = 2
  /\ Len(search_dic) = 2
  /\ Failed = {}

\* the place of future i in the order of completion, of url in the map
CompletedAt(i) == CHOOSE k \in 1..Len(completed) : completed[k] = i

PlaceOf(url) == CHOOSE k \in 1..Len(search_dic) : search_dic[k].url = url

\* the fetches that ended in Success with a non-empty text
Kept == {i \in Succeeded : ret[i].page_text # ""}

\* C13: the key order of the returned map is the order of completion: of two
\* distinct urls, each fetched once and both ending in Success (here: with a
\* non-empty text), the one whose fetch completed first comes first, also
\* when both had completed before the results were collected.
C13_KeyOrderIsCompletionOrder ==
  pc = "returned" =>
    \A i, j \in Kept :
      ( /\ urls[i] # urls[j]
        /\ \A k \in Futures \ {i, j} : urls[k] \notin {urls[i], urls[j]}
        /\ CompletedAt(i) < CompletedAt(j) ) =>
      ( /\ {urls[i], urls[j]} \subseteq Keys(search_dic)
        /\ PlaceOf(urls[i]) < PlaceOf(urls[j]) )

\* the occurrences of url in the list of candidate urls
Occurrences(url) == {i \in Futures : urls[i] = url}

\* the last of the futures in S to complete
LastCompleted(S) == CHOOSE i \in S : \A j \in S : CompletedAt(j) <= CompletedAt(i)

\* C14: a url that occurs twice in the input is fetched once per occurrence,
\* the scheduler does not fail, and the returned map holds one entry for
\* it, whose text is that of the last occurrence to complete among those
\* that ended in Success (here: with a non-empty text).
C14_DuplicatesLastWriteWins ==
  /\ pc # "raised"
  /\ pc = "returned" =>
       \A url \in {urls[i] : i \in Futures} :
         Cardinality(Occurrences(url)) > 1 =>
           /\ \A i \in Occurrences(url) : fstate[i] = "finished"
           /\ Occurrences(url) \cap Kept # {} =>
                /\ Cardinality({k \in 1..Len(search_dic) : search_dic[k].url = url}) = 1
                /\ search_dic[PlaceOf(url)].text =
                     ret[LastCompleted(Occurrences(url) \cap Kept)].page_text

(***************************************************************************)
(* The citation normalizer, continued (CiteSpec)                           *)
(***************************************************************************)

\* C15: renumber_citations is idempotent: applied to the text it returned,
\* it returns that text again, with the identity mapping.
C15_RenumberIsIdempotent ==
  Saved =>
    LET again == renumber_citations(response) IN
      /\ again.response = response
      /\ \A k \in 1..Len(again.citation_map) :
           again.citation_map[k].old = again.citation_map[k].new

\* the answer of the language model holds no citation marker
NoMarkers == \A k \in 1..Len(raw) : raw[k].kind # "cite"

\* C16: for an answer without citation markers, renumber_citations returns
\* the text as it was and an empty mapping, no source list is rendered and
\* the artifact is written with the Answer section only, whatever
\* llm_check_search returned.
C16_NoMarkersAnswerOnly ==
  (Saved /\ NoMarkers) =>
    /\ mpc = "done"
    /\ response = raw
    /\ citation_map = <<>>
    /\ links_block = <<>>
    /\ file = <<[sources |-> FALSE, links |-> <<>>, answer |-> raw]>>

\* an answer of two tokens without a marker, saved with a non-empty map
C16_Witness ==
  /\ mpc = "done"
  /\ NoMarkers
  /\ Len(raw) = 2
  /\ search_dic # <<>>
  /\ file # <<>>

(***************************************************************************)
(* Configuration and the path without search (CiteSpec)                    *)
(***************************************************************************)

\* the environment lacks the credential or the model name
ConfigMissing == OPENAI_API_KEY = None \/ LLM_MODEL = None

\* nothing was read, searched, asked or written
NoWorkDone == effects = {} /\ file = <<>> /\ raw = <<>> /\ check_response = <<>>

\* C17: a run whose OPENAI_API_KEY or LLM_MODEL is missing aborts at start-up
\* and never reads a query, searches, calls the language model or writes
\* an artifact; a run where only OPENAI_BASE_URL is missing goes on to read
\* the query.
C17_ConfigFaultsAreFatal ==
  /\ [](ConfigMissing => (mpc \in {"startup", "aborted"} /\ NoWorkDone))
  /\ [][mpc = "startup" =>
          IF ConfigMissing
            THEN mpc' = "aborted" /\ error' = "ValueError"
            ELSE mpc' = "query" /\ error' = "none" /\ OPENAI_BASE_URL' # None]_vars

\* the run has aborted on a missing LLM_MODEL, the credential being there
C17_Witness ==
  /\ mpc = "aborted"
  /\ error = "ValueError"
  /\ OPENAI_API_KEY # None
  /\ LLM_MODEL = None

(***************************************************************************)
(* Who writes the Evidence Map (Spec)                                      *)
(***************************************************************************)

\* this step is a step of the worker that runs the fetch of future i
WorkerStepOf(i) == fstate'[i] # fstate[i] /\ fstate'[i] # "queued"

\* the number of entries in which the map after the step differs
EntriesWritten ==
  Cardinality({k \in 1..Len(search_dic') :
                 k > Len(search_dic) \/ search_dic'[k] # search_dic[k]})

\* C18: the map is written only by the thread that called
\* google_parse_webpages, while it collects, one finished outcome and one
\* entry at a time; a step of a worker in fetch_webpage leaves the map, the
\* collection and the fetches of the other workers as they were.
C18_OnlyTheCallerWritesTheMap ==
  [][ /\ search_dic' # search_dic =>
           /\ pc = "collecting"
           /\ \A i \in Futures : ~WorkerStepOf(i)
           /\ \E i \in Futures \ collected :
                /\ fstate[i] = "finished"
                /\ collected' = collected \cup {i}
           /\ Len(search_dic') >= Len(search_dic)
           /\ EntriesWritten = 1
      /\ \A i \in Futures :
           WorkerStepOf(i) =>
             /\ search_dic' = search_dic
             /\ collected' = collected
             /\ pc' = pc
             /\ \A j \in Futures \ {i} :
                  /\ fstate'[j] = fstate[j]
                  /\ start'[j] = start[j]
                  /\ body'[j] = body[j]
                  /\ ret'[j] = ret[j]
                  /\ caught'[j] = caught[j]
                  /\ outcome'[j] = outcome[j]
    ]_vars

\* the caller has stored one entry while a worker is still in fetch_webpage
C18_Witness ==
  /\ pc = "collecting"
  /\ Len(search_dic) = 1
  /\ \E i \in Futures : InFlight(i)

(***************************************************************************)
(* The Evidence Map after llm_check_search (CiteSpec)                      *)
(***************************************************************************)

\* the prompt numbers the entries of the map 1, 2, ... in key order, each
\* with its url and at most MAX_CONTENT characters of its text, and the map
\* still holds the whole text of each page
PromptMatchesMap ==
  /\ Len(context_list) = Len(search_dic)
  /\ \A i \in 1..Len(search_dic) :
       /\ context_list[i].label = i
       /\ context_list[i].url = search_dic[i].url
       /\ context_list[i].content <= MAX_CONTENT
       /\ context_list[i].content <= search_dic[i].text
       /\ search_dic[i].text = PageLength(search_dic[i].url)

\* the link rendered for an old value that the prompt used as a label is the
\* url the prompt showed under that label
LinksMatchPrompt ==
  \A k \in 1..Len(links_block) :
    \A i \in 1..Len(context_list) :
      citation_map[k].old = context_list[i].label =>
        links_block[k].url = context_list[i].url

\* C19: build_prompt and generate_citation_links leave the Evidence Map as
\* llm_check_search returned it, keys, key order and values, so the position
\* i under which build_prompt shows a url is the position
\* generate_citation_links resolves for old = i.
C19_EvidenceMapIsReadOnly ==
  /\ [][(mpc \in {"build_prompt", "llm", "save"}) => (search_dic' = search_dic)]_vars
  /\ []((mpc \in {"llm", "save", "done", "crashed"} /\ ~search_none) => PromptMatchesMap)
  /\ [](mpc = "done" => LinksMatchPrompt)

\* an answer citing only the second of two pages, so that old 2 became new 1,
\* was saved; the prompt showed that page truncated to MAX_CONTENT
C19_Witness ==
  /\ mpc = "done"
  /\ Len(search_dic) = 2
  /\ Len(links_block) = 1
  /\ citation_map[1].old = 2
  /\ context_list[2].content = MAX_CONTENT
  /\ search_dic[2].text > MAX_CONTENT

\* the classification answer reads "no", in any case, between blanks
SaysNo(str) ==
  \E m \in 1..(Len(str) - 1) :
    /\ str[m] \in {"n", "N"}
    /\ str[m + 1] \in {"o", "O"}
    /\ \A k \in (1..Len(str)) \ {m, m + 1} : str[k] = " "

\* C20: when the classification answers "no", in any case and between
\* blanks, llm_check_search returns None without a search or a fetch, and
\* main still writes the output artifact, whatever answer text the language
\* model returns, an answer with citation markers included.
C20_NoSearchStillWrites ==
  /\ [][(mpc = "check" /\ SaysNo(check_response)) =>
          (search_none' /\ search_dic' = <<>> /\ effects' = effects)]_vars
  /\ [](search_none => ("search" \notin effects /\ urls = <<>> /\ pc = "idle"))
  /\ []((Saved /\ search_none) => (mpc = "done" /\ file # <<>> /\ "file" \in effects))

====
